---- MODULE Spec2Model ----
(***************************************************************************)
(* Callback dispatcher of handlers/callbacks.py: handle_callback_query and *)
(* handle_account_status_check, run as concurrent asyncio tasks over the   *)
(* Ledger (database module) and the per-user session (context.user_data).  *)
(*                                                                         *)
(* A task is one invocation of handle_callback_query.  asyncio runs the    *)
(* code between two awaits without interruption, so an action is one such  *)
(* segment: the synchronous code (database calls, user_data writes) up to  *)
(* and including the next awaited Telegram call, whose outcome (returns or *)
(* raises) is chosen nondeterministically.  Strings are sequences of       *)
(* tokens in which the colon is a token of its own.                        *)
(***************************************************************************)
EXTENDS Integers, Sequences, FiniteSets, TLC

VARIABLES tasks, user_data, balance, settings, jobs, dispatched

vars == <<tasks, user_data, balance, settings, jobs, dispatched>>

(* ------------------------------ bounds --------------------------------- *)
MaxEvents == 2
MaxBalance == 2
MaxSetting == 2

\* two invocations can be in flight at once; an event takes the first free slot
Tasks == {1, 2}
Users == {1, 2}
Balances == 0..MaxBalance
Unset == 0
SettingValues == 0..MaxSetting
TimeValues == {-1, 0, 59, 125, 600}

(* ------------------------------ strings -------------------------------- *)
Colon == ":"
StatusPrefix == <<"check_account_status", Colon>>
AdminPrefix == <<"admin_confirm_withdrawal", Colon>>
NavTags == {<<"nav_start">>, <<"nav_balance">>, <<"nav_cap">>, <<"nav_rules">>,
            <<"nav_support">>}
WithdrawTag == <<"withdraw_start">>
JobId == <<"j1">>
Events == NavTags \cup
          { WithdrawTag,
            StatusPrefix \o JobId,
            StatusPrefix \o <<"j2">>,
            StatusPrefix \o <<"x", Colon, "j1">>,
            AdminPrefix \o <<"w1">>,
            <<"check_account_status">>,
            <<"bogus">> }

\* str.startswith
StartsWith(s, p) == Len(s) >= Len(p) /\ SubSeq(s, 1, Len(p)) = p

\* str.split(':')[-1]: the tokens after the last colon
RECURSIVE SplitLast(_)
SplitLast(s) ==
    IF s = <<>> THEN <<>>
    ELSE IF s[Len(s)] = Colon THEN <<>>
    ELSE SplitLast(SubSeq(s, 1, Len(s) - 1)) \o <<s[Len(s)]>>

\* f"{n:02d}" for n >= 0, as the sequence of its decimal digits
RECURSIVE Digits(_)
Digits(n) == IF n < 10 THEN <<n>> ELSE Digits(n \div 10) \o <<n % 10>>
Fmt02d(n) == IF n < 10 THEN <<0, n>> ELSE Digits(n)

(* ------------------------------ ledger --------------------------------- *)
None == [kind |-> "None"]
Phone == <<"1", "5", "5">>
\* database.get_countries_config(): a dict, iterated in insertion order
Countries == << [code |-> <<"1", "5">>, price_ok |-> 3],
                [code |-> <<"1">>, price_ok |-> 2] >>

\* database.get_account_time_remaining
get_account_time_remaining(job_id) ==
    IF job_id = JobId /\ jobs # None THEN jobs ELSE None

\* database.get_setting(name, default)
DefaultMinWithdraw == 1
DefaultMaxWithdraw == 100
get_setting(name, default) ==
    IF settings[name] = Unset THEN default ELSE settings[name]

\* the loop over all_countries.items(): first matching prefix wins
RECURSIVE PriceFrom(_, _)
PriceFrom(phone, cs) ==
    IF cs = <<>> THEN 0
    ELSE IF StartsWith(phone, Head(cs).code) THEN Head(cs).price_ok
    ELSE PriceFrom(phone, Tail(cs))

Min(a, b) == IF a < b THEN a ELSE b

(* ------------------------------ session -------------------------------- *)
EmptyDict == [k \in {} |-> 0]
\* context.user_data after the withdraw_start branch has run on it
Staged(amount) ==
    [k \in {"withdrawal_amount", "state"} |->
        IF k = "state" THEN "waiting_for_address" ELSE amount]
\* faulty variants: the session is written before the balance is tested; the
\* amount is not capped; the larger of the two is taken; an earlier stage is kept
WithdrawUserData_StageFirst(ud, total_balance, min_withdraw, max_withdraw) ==
    Staged(Min(total_balance, max_withdraw))
WithdrawUserData_NoClamp(ud, total_balance, min_withdraw, max_withdraw) ==
    IF total_balance < min_withdraw THEN ud ELSE Staged(total_balance)
WithdrawUserData_Max(ud, total_balance, min_withdraw, max_withdraw) ==
    IF total_balance < min_withdraw THEN ud
    ELSE Staged(IF total_balance < max_withdraw THEN max_withdraw
                ELSE total_balance)
WithdrawUserData_FirstWins(ud, total_balance, min_withdraw, max_withdraw) ==
    IF total_balance < min_withdraw \/ ud # EmptyDict THEN ud
    ELSE Staged(Min(total_balance, max_withdraw))
WithdrawUserData(ud, total_balance, min_withdraw, max_withdraw) ==
    IF total_balance < min_withdraw THEN ud
    ELSE Staged(Min(total_balance, max_withdraw))

(* ------------------------------- tasks --------------------------------- *)
NoAlert == [kind |-> "none", arg |-> 0]
NoView == [kind |-> "none", price |-> 0, remaining |-> <<>>, amount |-> 0,
           buttons |-> {}]
IdleTask == [pc |-> "idle", data |-> <<>>, user |-> 0, trace |-> <<>>,
             outcome |-> "", alert |-> NoAlert, view |-> NoView,
             job_id |-> <<>>, account |-> None, time_remaining |-> 0,
             phone |-> <<>>,
             swallowed |-> FALSE, caught |-> FALSE, raised |-> FALSE]

Job(tr) == [time_remaining |-> tr, phone_number |-> Phone]
NoSettings == [k \in {"min_withdraw", "max_withdraw"} |-> Unset]

\* no event has arrived yet; every session is empty
Start ==
    /\ tasks = [t \in Tasks |-> IdleTask]
    /\ user_data = [u \in Users |-> EmptyDict]
    /\ dispatched = 0

\* a poor user and a rich one, default settings, a job counting down
Init ==
    /\ Start
    /\ balance = [u \in Users |-> IF u = 1 THEN 0 ELSE MaxBalance]
    /\ settings = NoSettings
    /\ jobs = Job(125)

Ledger == <<balance, settings, jobs>>

\* the calls a handler has made so far, in order
Did(tk, calls) == [tk EXCEPT !.trace = @ \o calls]
\* an exception leaves the try block for line 172
Raise(tk, calls) == [Did(tk, calls) EXCEPT !.pc = "except"]
\* an awaited Telegram call returns (control goes on to pc) or raises
Await(tk, ok, pc) == [tk EXCEPT !.pc = IF ok THEN pc ELSE "except"]

\* lines 111-168: the branch of handle_callback_query a tag selects
Route(data) ==
    IF StartsWith(data, StatusPrefix) THEN "status"
    ELSE IF data \in NavTags THEN "nav"
    ELSE IF data = WithdrawTag THEN "withdraw"
    ELSE IF StartsWith(data, AdminPrefix) THEN "admin"
    ELSE "unknown"

\* faulty variant: the handler starts its work without acknowledging the receipt
Dispatch_NoAck(t, events, users) ==
    /\ tasks[t].pc = "idle"
    /\ \A s \in Tasks : s < t => tasks[s].pc # "idle"
    /\ dispatched < MaxEvents
    /\ dispatched' = dispatched + 1
    /\ \E data \in events, u \in users :
         tasks' = [tasks EXCEPT ![t] =
            [IdleTask EXCEPT !.data = data, !.user = u, !.pc = "route"]]
    /\ UNCHANGED <<user_data, Ledger>>

\* lines 103-108: the event arrives and its receipt is acknowledged
Dispatch(t, events, users) ==
    /\ tasks[t].pc = "idle"
    /\ \A s \in Tasks : s < t => tasks[s].pc # "idle"
    /\ dispatched < MaxEvents
    /\ dispatched' = dispatched + 1
    /\ \E data \in events, u \in users, ok \in BOOLEAN :
         tasks' = [tasks EXCEPT ![t] =
            Await([IdleTask EXCEPT !.data = data, !.user = u,
                                   !.trace = <<"answer">>], ok, "route")]
    /\ UNCHANGED <<user_data, Ledger>>

\* faulty variant: the minutes are rounded up
Minutes_RoundUp(time_remaining) == (time_remaining + 59) \div 60
\* lines 64-65
Minutes(time_remaining) == time_remaining \div 60
Seconds(time_remaining) == time_remaining % 60

\* faulty variant: a job with no time left still counts as pending
StatusAlert_StrictExpiry(tk, account) ==
    IF account = None
    THEN [Did(tk, <<"get_account", "alert">>) EXCEPT
            !.outcome = "NotFound", !.alert = [kind |-> "not_found", arg |-> 0]]
    ELSE IF account.time_remaining < 0
    THEN [Did(tk, <<"get_account", "alert">>) EXCEPT
            !.outcome = "Expired", !.alert = [kind |-> "expired", arg |-> 0],
            !.time_remaining = account.time_remaining,
            !.phone = account.phone_number]
    ELSE [Did(tk, <<"get_account", "alert">>) EXCEPT
            !.outcome = "Pending",
            !.alert = [kind |-> "wait", arg |-> account.time_remaining],
            !.time_remaining = account.time_remaining,
            !.phone = account.phone_number]

\* lines 21-36 and 63-72: lookup of the job and the alert of its status
StatusAlert(tk, account) ==
    IF account = None
    THEN [Did(tk, <<"get_account", "alert">>) EXCEPT
            !.outcome = "NotFound", !.alert = [kind |-> "not_found", arg |-> 0]]
    ELSE IF account.time_remaining <= 0
    THEN [Did(tk, <<"get_account", "alert">>) EXCEPT
            !.outcome = "Expired", !.alert = [kind |-> "expired", arg |-> 0],
            !.time_remaining = account.time_remaining,
            !.phone = account.phone_number]
    ELSE [Did(tk, <<"get_account", "alert">>) EXCEPT
            !.outcome = "Pending",
            !.alert = [kind |-> "wait", arg |-> account.time_remaining],
            !.time_remaining = account.time_remaining,
            !.phone = account.phone_number]

\* faulty variant: the handler does not return after the not-found alert
StatusNextPc_NoReturn(outcome) ==
    IF outcome = "Expired" THEN "L39" ELSE "L75"
\* lines 30, 36 and 72: where the handler goes on after its alert
StatusNextPc(outcome) ==
    IF outcome = "NotFound" THEN "done"
    ELSE IF outcome = "Expired" THEN "L39" ELSE "L75"

\* faulty variant: a check that finds the job expired drops it from the Ledger
handle_account_status_check_Consume(t) ==
    /\ tasks[t].pc = "route"
    /\ Route(tasks[t].data) = "status"
    /\ LET job_id == SplitLast(tasks[t].data)
           account == get_account_time_remaining(job_id)
           r == StatusAlert([tasks[t] EXCEPT !.job_id = job_id,
                                             !.account = account], account)
       IN /\ \E ok \in BOOLEAN :
               tasks' = [tasks EXCEPT ![t] =
                           Await(r, ok, StatusNextPc(r.outcome))]
          /\ jobs' = IF r.outcome = "Expired" THEN None ELSE jobs
    /\ UNCHANGED <<user_data, balance, settings, dispatched>>

handle_account_status_check(t) ==
    /\ tasks[t].pc = "route"
    /\ Route(tasks[t].data) = "status"
    /\ LET job_id == SplitLast(tasks[t].data)
           account == get_account_time_remaining(job_id)
           tk == [tasks[t] EXCEPT !.job_id = job_id]
       IN \/ tasks' = [tasks EXCEPT ![t] = Raise(tk, <<"get_account">>)]
          \/ \E ok \in BOOLEAN :
               LET r == StatusAlert([tk EXCEPT !.account = account], account)
               IN tasks' = [tasks EXCEPT ![t] =
                              Await(r, ok, StatusNextPc(r.outcome))]
    /\ UNCHANGED <<user_data, Ledger, dispatched>>

\* lines 39-58: the terminal view, sent without reply_markup
ExpiredViewOf(tk) ==
    [kind |-> "processing", price |-> PriceFrom(tk.phone, Countries),
     remaining |-> <<>>, amount |-> 0, buttons |-> {}]

\* faulty variant: the countdown view is sent without its keyboard
PendingViewOf_NoKeyboard(tk) ==
    [kind |-> "verification", price |-> PriceFrom(tk.phone, Countries),
     remaining |-> <<Fmt02d(Minutes(tk.time_remaining)),
                     Fmt02d(Seconds(tk.time_remaining))>>,
     amount |-> 0, buttons |-> {}]
\* lines 75-99: the countdown view with the polling button
PendingViewOf(tk) ==
    [kind |-> "verification", price |-> PriceFrom(tk.phone, Countries),
     remaining |-> <<Fmt02d(Minutes(tk.time_remaining)),
                     Fmt02d(Seconds(tk.time_remaining))>>,
     amount |-> 0, buttons |-> {StatusPrefix \o tk.job_id}]

\* lines 39-61: an exception of the edit is logged and swallowed (line 59)
ExpiredView(t) ==
    /\ tasks[t].pc = "L39"
    /\ \/ tasks' = [tasks EXCEPT ![t] = Raise(@, <<"get_countries">>)]
       \/ \E ok \in BOOLEAN :
            tasks' = [tasks EXCEPT ![t] =
               [Did(@, <<"get_countries", "edit">>) EXCEPT
                   !.view = ExpiredViewOf(tasks[t]), !.swallowed = ~ok,
                   !.pc = "done"]]
    /\ UNCHANGED <<user_data, Ledger, dispatched>>

\* faulty variant: a failed edit of the countdown view is sent once more
PendingView_Retry(t) ==
    /\ tasks[t].pc = "L75"
    /\ \E ok \in BOOLEAN :
         tasks' = [tasks EXCEPT ![t] =
            [Did(@, IF ok THEN <<"get_countries", "edit">>
                    ELSE <<"get_countries", "edit", "edit">>) EXCEPT
                !.view = PendingViewOf(tasks[t]), !.pc = "done"]]
    /\ UNCHANGED <<user_data, Ledger, dispatched>>

\* faulty variant: an exception of the edit of the countdown view leaves the
\* status check and reaches the except block of handle_callback_query
PendingView_Propagate(t) ==
    /\ tasks[t].pc = "L75"
    /\ \/ tasks' = [tasks EXCEPT ![t] = Raise(@, <<"get_countries">>)]
       \/ \E ok \in BOOLEAN :
            tasks' = [tasks EXCEPT ![t] =
               [Did(@, <<"get_countries", "edit">>) EXCEPT
                   !.view = PendingViewOf(tasks[t]), !.swallowed = ~ok,
                   !.pc = IF ok THEN "done" ELSE "except"]]
    /\ UNCHANGED <<user_data, Ledger, dispatched>>

\* lines 75-101: an exception of the edit is logged and swallowed (line 100)
PendingView(t) ==
    /\ tasks[t].pc = "L75"
    /\ \/ tasks' = [tasks EXCEPT ![t] = Raise(@, <<"get_countries">>)]
       \/ \E ok \in BOOLEAN :
            tasks' = [tasks EXCEPT ![t] =
               [Did(@, <<"get_countries", "edit">>) EXCEPT
                   !.view = PendingViewOf(tasks[t]), !.swallowed = ~ok,
                   !.pc = "done"]]
    /\ UNCHANGED <<user_data, Ledger, dispatched>>

\* the text and keyboard of a navigation panel (handlers/commands.py)
NavViewOf(data) ==
    [kind |-> "nav", price |-> 0, remaining |-> <<>>, amount |-> 0,
     buttons |-> IF data = <<"nav_support">> THEN {<<"nav_start">>} ELSE {}]

\* what a content provider of handlers/commands.py leaves in the session of
\* the user: the providers render a panel and write nothing
ContentUserData(data, ud) == ud

\* faulty variant: the Cancel button of the withdrawal view (nav_balance)
\* returns the session to idle
Navigation_Cancel(t) ==
    /\ tasks[t].pc = "route"
    /\ Route(tasks[t].data) = "nav"
    /\ \/ /\ tasks' = [tasks EXCEPT ![t] = Raise(@, <<"content">>)]
          /\ UNCHANGED user_data
       \/ /\ \E ok \in BOOLEAN :
               tasks' = [tasks EXCEPT ![t] =
                  Await([Did(@, <<"content", "edit">>) EXCEPT
                           !.outcome = "Nav", !.view = NavViewOf(tasks[t].data)],
                        ok, "done")]
          /\ user_data' = [user_data EXCEPT ![tasks[t].user] =
                IF tasks[t].data = <<"nav_balance">> THEN EmptyDict ELSE @]
    /\ UNCHANGED <<Ledger, dispatched>>

\* faulty variant: a navigation panel refreshes a staged amount from the balance
Navigation_Refresh(t) ==
    /\ tasks[t].pc = "route"
    /\ Route(tasks[t].data) = "nav"
    /\ \E ok \in BOOLEAN :
         tasks' = [tasks EXCEPT ![t] =
            Await([Did(@, <<"content", "edit">>) EXCEPT
                     !.outcome = "Nav", !.view = NavViewOf(tasks[t].data)],
                  ok, "done")]
    /\ user_data' = [user_data EXCEPT ![tasks[t].user] =
          IF @ = EmptyDict THEN @
          ELSE Staged(Min(balance[tasks[t].user],
                          get_setting("max_withdraw", DefaultMaxWithdraw)))]
    /\ UNCHANGED <<Ledger, dispatched>>

\* lines 116-139
Navigation(t) ==
    /\ tasks[t].pc = "route"
    /\ Route(tasks[t].data) = "nav"
    /\ \/ /\ tasks' = [tasks EXCEPT ![t] = Raise(@, <<"content">>)]
          /\ UNCHANGED user_data
       \/ /\ \E ok \in BOOLEAN :
               tasks' = [tasks EXCEPT ![t] =
                  Await([Did(@, <<"content", "edit">>) EXCEPT
                           !.outcome = "Nav", !.view = NavViewOf(tasks[t].data)],
                        ok, "done")]
          /\ user_data' = [user_data EXCEPT ![tasks[t].user] =
                ContentUserData(tasks[t].data, @)]
    /\ UNCHANGED <<Ledger, dispatched>>

\* lines 149-160: what the withdraw_start branch tells the user
WithdrawReply(tk, total_balance, min_withdraw, max_withdraw) ==
    IF total_balance < min_withdraw
    THEN [Did(tk, <<"get_balance", "get_setting", "get_setting", "alert">>) EXCEPT
            !.outcome = "Ineligible",
            !.alert = [kind |-> "minimum", arg |-> min_withdraw]]
    ELSE [Did(tk, <<"get_balance", "get_setting", "get_setting",
                    "set_user_data", "edit">>) EXCEPT
            !.outcome = "Eligible",
            !.view = [kind |-> "withdrawal", price |-> total_balance,
                      remaining |-> <<>>,
                      amount |-> Min(total_balance, max_withdraw),
                      buttons |-> {<<"nav_balance">>}]]

\* faulty variant: the stage is written to one store shared by all users
WithdrawStart_SharedSession(t) ==
    /\ tasks[t].pc = "route"
    /\ Route(tasks[t].data) = "withdraw"
    /\ LET user_id == tasks[t].user
           total_balance == balance[user_id]
           min_withdraw == get_setting("min_withdraw", DefaultMinWithdraw)
           max_withdraw == get_setting("max_withdraw", DefaultMaxWithdraw)
       IN \E ok \in BOOLEAN :
            /\ tasks' = [tasks EXCEPT ![t] =
                  Await(WithdrawReply(@, total_balance, min_withdraw,
                                      max_withdraw), ok, "done")]
            /\ user_data' = [u \in Users |->
                  WithdrawUserData(user_data[u], total_balance, min_withdraw,
                                   max_withdraw)]
    /\ UNCHANGED <<Ledger, dispatched>>

\* lines 142-160
WithdrawStart(t) ==
    /\ tasks[t].pc = "route"
    /\ Route(tasks[t].data) = "withdraw"
    /\ LET user_id == tasks[t].user
           total_balance == balance[user_id]
           min_withdraw == get_setting("min_withdraw", DefaultMinWithdraw)
           max_withdraw == get_setting("max_withdraw", DefaultMaxWithdraw)
       IN \/ /\ tasks' = [tasks EXCEPT ![t] = Raise(@, <<"get_balance">>)]
             /\ UNCHANGED user_data
          \/ \E ok \in BOOLEAN :
               /\ tasks' = [tasks EXCEPT ![t] =
                     Await(WithdrawReply(@, total_balance, min_withdraw,
                                         max_withdraw), ok, "done")]
               /\ user_data' = [user_data EXCEPT ![user_id] =
                     WithdrawUserData(@, total_balance, min_withdraw,
                                      max_withdraw)]
    /\ UNCHANGED <<Ledger, dispatched>>

\* lines 163-166: the delegated handler returns or raises
AdminConfirm(t) ==
    /\ tasks[t].pc = "route"
    /\ Route(tasks[t].data) = "admin"
    /\ \E ok \in BOOLEAN :
         tasks' = [tasks EXCEPT ![t] =
            Await([Did(@, <<"admin">>) EXCEPT !.outcome = "Admin"], ok, "done")]
    /\ UNCHANGED <<user_data, Ledger, dispatched>>

\* lines 168-170
UnknownAction(t) ==
    /\ tasks[t].pc = "route"
    /\ Route(tasks[t].data) = "unknown"
    /\ \E ok \in BOOLEAN :
         tasks' = [tasks EXCEPT ![t] =
            Await([Did(@, <<"alert">>) EXCEPT
                     !.outcome = "Unknown",
                     !.alert = [kind |-> "unknown", arg |-> 0]], ok, "done")]
    /\ UNCHANGED <<user_data, Ledger, dispatched>>

\* faulty variant: the except block clears the session of the user
ErrorBoundary_Rollback(t) ==
    /\ tasks[t].pc = "except"
    /\ \E ok \in BOOLEAN :
         tasks' = [tasks EXCEPT ![t] =
            [Did(@, <<"alert">>) EXCEPT
                !.alert = [kind |-> "error", arg |-> 0], !.caught = TRUE,
                !.raised = ~ok, !.pc = "done"]]
    /\ user_data' = [user_data EXCEPT ![tasks[t].user] = EmptyDict]
    /\ UNCHANGED <<Ledger, dispatched>>

\* lines 172-174: the failure alert is sent outside any try block, so an
\* exception of that call leaves handle_callback_query
ErrorBoundary(t) ==
    /\ tasks[t].pc = "except"
    /\ \E ok \in BOOLEAN :
         tasks' = [tasks EXCEPT ![t] =
            [Did(@, <<"alert">>) EXCEPT
                !.alert = [kind |-> "error", arg |-> 0], !.caught = TRUE,
                !.raised = ~ok, !.pc = "done"]]
    /\ UNCHANGED <<user_data, Ledger, dispatched>>

\* the task of a finished invocation is gone; its slot takes a later event
Complete(t) ==
    /\ tasks[t].pc = "done"
    /\ tasks' = [tasks EXCEPT ![t] = IdleTask]
    /\ UNCHANGED <<user_data, Ledger, dispatched>>

(* ------------------- the Ledger changes under the tasks ---------------- *)
BalanceChange(users) ==
    /\ \E u \in users, b \in Balances :
         /\ b # balance[u]
         /\ balance' = [balance EXCEPT ![u] = b]
    /\ UNCHANGED <<tasks, user_data, settings, jobs, dispatched>>

SettingChange ==
    /\ \E k \in DOMAIN settings, v \in SettingValues :
         /\ v # settings[k]
         /\ settings' = [settings EXCEPT ![k] = v]
    /\ UNCHANGED <<tasks, user_data, balance, jobs, dispatched>>

\* the countdown of the job runs down, or the Ledger drops the job
JobChange ==
    /\ jobs # None
    /\ \/ jobs' = None
       \/ \E tr \in TimeValues :
            /\ tr < jobs.time_remaining
            /\ jobs' = [jobs EXCEPT !.time_remaining = tr]
    /\ UNCHANGED <<tasks, user_data, balance, settings, dispatched>>

\* every event, over a Ledger in which only the job changes
Next ==
    \/ \E t \in Tasks :
         \/ Dispatch(t, Events, Users)
         \/ handle_account_status_check(t)
         \/ ExpiredView(t)
         \/ PendingView(t)
         \/ Navigation(t)
         \/ WithdrawStart(t)
         \/ AdminConfirm(t)
         \/ UnknownAction(t)
         \/ ErrorBoundary(t)
         \/ Complete(t)
    \/ JobChange

Spec == Init /\ [][Next]_vars

\* the status checks of one user, over every state of the job
StatusEvents == {e \in Events : Route(e) = "status"}

InitStatus ==
    /\ Start
    /\ balance = [u \in Users |-> 0]
    /\ settings = NoSettings
    /\ jobs \in {None} \cup {Job(tr) : tr \in TimeValues}

NextStatus ==
    \/ \E t \in Tasks :
         \/ Dispatch(t, StatusEvents, {1})
         \/ handle_account_status_check(t)
         \/ ExpiredView(t)
         \/ PendingView(t)
         \/ ErrorBoundary(t)
         \/ Complete(t)
    \/ JobChange

SpecStatus == InitStatus /\ [][NextStatus]_vars

\* the withdrawals of one user, with the events that may come between two
\* of them, over every balance and every pair of settings
WithdrawEvents == {WithdrawTag, <<"nav_balance">>, StatusPrefix \o JobId}

InitWithdraw ==
    /\ Start
    /\ balance \in {[u \in Users |-> IF u = 1 THEN b ELSE 0] : b \in Balances}
    /\ settings \in [{"min_withdraw", "max_withdraw"} -> SettingValues]
    /\ jobs = Job(125)

NextWithdraw ==
    \/ \E t \in Tasks :
         \/ Dispatch(t, WithdrawEvents, {1})
         \/ handle_account_status_check(t)
         \/ PendingView(t)
         \/ Navigation(t)
         \/ WithdrawStart(t)
         \/ ErrorBoundary(t)
         \/ Complete(t)
    \/ BalanceChange({1})
    \/ SettingChange

SpecWithdraw == InitWithdraw /\ [][NextWithdraw]_vars

\* every event of one user whose balance moves while the job runs down: a
\* staged session meets every branch of the dispatcher
InitSession ==
    /\ Start
    /\ balance \in {[u \in Users |-> IF u = 1 THEN b ELSE 0] : b \in Balances}
    /\ settings = NoSettings
    /\ jobs = Job(59)

NextSession ==
    \/ \E t \in Tasks :
         \/ Dispatch(t, Events, {1})
         \/ handle_account_status_check(t)
         \/ ExpiredView(t)
         \/ PendingView(t)
         \/ Navigation(t)
         \/ WithdrawStart(t)
         \/ AdminConfirm(t)
         \/ UnknownAction(t)
         \/ ErrorBoundary(t)
         \/ Complete(t)
    \/ BalanceChange({1})
    \/ JobChange

SpecSession == InitSession /\ [][NextSession]_vars

(* ------------------------------ claims --------------------------------- *)
Range(f) == {f[i] : i \in DOMAIN f}
RECURSIVE Count(_, _)
Count(seq, set) ==
    IF seq = <<>> THEN 0
    ELSE (IF Head(seq) \in set THEN 1 ELSE 0) + Count(Tail(seq), set)
\* the value of a sequence of decimal digits
RECURSIVE Val(_)
Val(ds) == IF ds = <<>> THEN 0 ELSE 10 * Val(SubSeq(ds, 1, Len(ds) - 1)) + ds[Len(ds)]

\* query.answer calls, with or without a text
AnswerCalls == {"answer", "alert"}
\* Ledger and settings lookups, session writes, delegated handlers
Work == {"get_account", "get_countries", "get_balance", "get_setting",
         "set_user_data", "content", "admin"}
Finished(t) == tasks[t].pc = "done"
\* task t runs a segment of its handler in this step
Steps(t) == tasks'[t] # tasks[t]
\* task t runs the withdraw_start branch in this step and gets past the Ledger
Evaluates(t) ==
    /\ tasks[t].pc = "route"
    /\ Route(tasks[t].data) = "withdraw"
    /\ Steps(t)
    /\ tasks'[t].outcome # ""
IsStaged(ud) == DOMAIN ud = {"withdrawal_amount", "state"}
MinNow == get_setting("min_withdraw", DefaultMinWithdraw)
MaxNow == get_setting("max_withdraw", DefaultMaxWithdraw)

\* C1: every finished invocation of handle_callback_query has made exactly
\* one query.answer call, whatever its outcome
C1_ExactlyOneAnswer ==
    \A t \in Tasks : Finished(t) => Count(tasks[t].trace, AnswerCalls) = 1

\* C2: no exception propagates out of handle_callback_query
C2_NeverRaises ==
    \A t \in Tasks : ~tasks[t].raised

\* C3 as stated: the first call of an invocation is the acknowledgment, and
\* no lookup, session write or delegated work follows a notification or a
\* view edit of the same invocation
C3_AckWorkThenNotify ==
    \A t \in Tasks :
      LET tr == tasks[t].trace IN
        /\ tr # <<>> => tr[1] = "answer"
        /\ \A i, j \in DOMAIN tr :
             (i < j /\ tr[i] \in {"alert", "edit"}) => tr[j] \notin Work

\* C3 amended: the first call of an invocation is the acknowledgment; no
\* work follows a view edit; the only work that follows a notification is
\* the country-configuration lookup of the status check
C3_AckFirst ==
    \A t \in Tasks :
      LET tr == tasks[t].trace IN
        /\ tr # <<>> => tr[1] = "answer"
        /\ \A i, j \in DOMAIN tr :
             /\ (i < j /\ tr[i] = "edit") => tr[j] \notin Work
             /\ (i < j /\ tr[i] = "alert" /\ tr[j] \in Work) =>
                  (tr[j] = "get_countries" /\ Route(tasks[t].data) = "status")

C3_Witness ==
    \E t \in Tasks :
      /\ Finished(t)
      /\ tasks[t].trace =
           <<"answer", "get_account", "alert", "get_countries", "edit">>

\* C4: a status check that finds the job with time_remaining <= 0 yields
\* Expired, and an Expired check never sends a view with a button
C4_ExpiredNeverRearms ==
    /\ [][\A t \in Tasks :
            ( /\ tasks[t].pc = "route"
              /\ Route(tasks[t].data) = "status"
              /\ SplitLast(tasks[t].data) = JobId
              /\ jobs # None
              /\ jobs.time_remaining <= 0
              /\ Steps(t)
              /\ tasks'[t].outcome # "" )
            => tasks'[t].outcome = "Expired"]_vars
    /\ [](\A t \in Tasks :
            tasks[t].outcome = "Expired" =>
              /\ tasks[t].view.buttons = {}
              /\ tasks[t].view.kind \in {"none", "processing"}
              /\ tasks[t].pc # "L75")

C4_Witness ==
    \E t \in Tasks :
      /\ Finished(t)
      /\ tasks[t].outcome = "Expired"
      /\ tasks[t].view.kind = "processing"
      /\ jobs # None
      /\ jobs.time_remaining = 0

\* C5: a status check that finds time_remaining > 0 alerts exactly that
\* number of seconds, and the view it sends shows mm:ss with
\* 60 * mm + ss = that number and 0 <= ss < 60
C5_ExactSeconds ==
    /\ [][\A t \in Tasks :
            ( /\ tasks[t].pc = "route"
              /\ Route(tasks[t].data) = "status"
              /\ SplitLast(tasks[t].data) = JobId
              /\ jobs # None
              /\ jobs.time_remaining > 0
              /\ Steps(t)
              /\ tasks'[t].outcome # "" )
            => /\ tasks'[t].outcome = "Pending"
               /\ tasks'[t].alert = [kind |-> "wait",
                                     arg |-> jobs.time_remaining]]_vars
    /\ [](\A t \in Tasks :
            tasks[t].view.kind = "verification" =>
              LET mm == tasks[t].view.remaining[1]
                  ss == tasks[t].view.remaining[2]
              IN /\ tasks[t].alert.kind = "wait"
                 /\ 60 * Val(mm) + Val(ss) = tasks[t].alert.arg
                 /\ Val(ss) >= 0 /\ Val(ss) < 60
                 /\ Len(mm) >= 2 /\ Len(ss) = 2)

C5_Witness ==
    \E t \in Tasks :
      /\ Finished(t)
      /\ tasks[t].alert = [kind |-> "wait", arg |-> 125]
      /\ tasks[t].view.remaining = <<(<<0, 2>>), (<<0, 5>>)>>

\* C6: a withdraw_start that finds the balance below min_withdraw yields
\* Ineligible and leaves every session as it was
C6_IneligibleNoMutation ==
    [][\A t \in Tasks :
         ( /\ tasks[t].pc = "route"
           /\ Route(tasks[t].data) = "withdraw"
           /\ balance[tasks[t].user] < MinNow
           /\ Steps(t) )
         => /\ user_data' = user_data
            /\ tasks'[t].outcome \in {"Ineligible", ""}]_vars

C6_Witness ==
    \E t \in Tasks :
      /\ Finished(t)
      /\ tasks[t].outcome = "Ineligible"
      /\ ~tasks[t].caught
      /\ IsStaged(user_data[tasks[t].user])

\* C7: a withdraw_start that finds the balance b >= min_withdraw stages the
\* smaller of b and max_withdraw and sets the state waiting_for_address
C7_EligibleStagesMin ==
    [][\A t \in Tasks :
         ( /\ Evaluates(t)
           /\ balance[tasks[t].user] >= MinNow )
         => LET b == balance[tasks[t].user]
                ud == user_data'[tasks[t].user]
            IN /\ tasks'[t].outcome = "Eligible"
               /\ IsStaged(ud)
               /\ ud.state = "waiting_for_address"
               /\ ud.withdrawal_amount \in {b, MaxNow}
               /\ ud.withdrawal_amount <= b
               /\ ud.withdrawal_amount <= MaxNow]_vars

C7_Witness ==
    \E t \in Tasks :
      /\ Finished(t)
      /\ tasks[t].outcome = "Eligible"
      /\ balance[tasks[t].user] = 2
      /\ settings["max_withdraw"] = 1
      /\ user_data[tasks[t].user].withdrawal_amount = 1

\* C8: a staged amount changes only in a step in which a withdraw_start of
\* the same user stages again
C8_StagedAmountFrozen ==
    [][\A u \in Users :
         IsStaged(user_data[u]) =>
           \/ user_data'[u] = user_data[u]
           \/ \E t \in Tasks :
                /\ Evaluates(t)
                /\ tasks[t].user = u
                /\ tasks'[t].outcome = "Eligible"]_vars

C8_Witness ==
    \E t \in Tasks :
      /\ Finished(t)
      /\ tasks[t].outcome \in {"Nav", "Pending"}
      /\ IsStaged(user_data[tasks[t].user])
      /\ user_data[tasks[t].user].withdrawal_amount # balance[tasks[t].user]
      /\ user_data[tasks[t].user].withdrawal_amount # MaxNow

\* C9 as stated: the amount a staging writes lies between the min_withdraw
\* and the max_withdraw of that moment, for every pair of settings
C9_StagedWithinMinMax ==
    [][\A t \in Tasks :
         (Evaluates(t) /\ tasks'[t].outcome = "Eligible") =>
            LET a == user_data'[tasks[t].user].withdrawal_amount
            IN MinNow <= a /\ a <= MaxNow]_vars

\* C9 amended: the amount a staging writes is at most the max_withdraw of
\* that moment, and at least the min_withdraw of that moment whenever
\* min_withdraw <= max_withdraw
C9_StagedAtMostMax ==
    [][\A t \in Tasks :
         (Evaluates(t) /\ tasks'[t].outcome = "Eligible") =>
            LET a == user_data'[tasks[t].user].withdrawal_amount
            IN /\ a <= MaxNow
               /\ MinNow <= MaxNow => MinNow <= a]_vars

C9_Witness ==
    \E t \in Tasks :
      /\ Finished(t)
      /\ tasks[t].outcome = "Eligible"
      /\ tasks[t].view.price = 2
      /\ tasks[t].view.amount = 1
      /\ user_data[tasks[t].user].withdrawal_amount = 1
      /\ settings["min_withdraw"] = 1
      /\ settings["max_withdraw"] = 1

\* C10: a session holds no stage or exactly one, and a staging overwrites
\* whatever was staged with the amount of the invocation that runs it
C10_LastWriteWins ==
    /\ [][\A t \in Tasks :
            (Evaluates(t) /\ tasks'[t].outcome = "Eligible") =>
               user_data'[tasks[t].user] = Staged(tasks'[t].view.amount)]_vars
    /\ [](\A u \in Users :
            \/ user_data[u] = EmptyDict
            \/ /\ IsStaged(user_data[u])
               /\ user_data[u].withdrawal_amount \in Nat)

\* two invocations of one user are in flight, both have staged, with
\* different amounts, and the session holds the later one
C10_Witness ==
    \E t1, t2 \in Tasks :
      /\ t1 # t2
      /\ tasks[t1].user = tasks[t2].user
      /\ tasks[t1].outcome = "Eligible" /\ tasks[t1].pc = "except"
      /\ tasks[t2].outcome = "Eligible" /\ tasks[t2].pc = "done"
      /\ tasks[t1].view.amount # tasks[t2].view.amount
      /\ user_data[tasks[t1].user].withdrawal_amount = tasks[t2].view.amount

\* C11: an invocation of handle_callback_query calls edit_message_text at
\* most once, on every path, those that end in the except block included
C11_AtMostOneEdit ==
    \A t \in Tasks : Count(tasks[t].trace, {"edit"}) <= 1

\* an invocation whose one edit raised and ended in the except block
C11_Witness ==
    \E t \in Tasks :
      /\ Finished(t)
      /\ tasks[t].caught
      /\ Count(tasks[t].trace, {"edit"}) = 1
      /\ tasks[t].outcome \in {"Nav", "Eligible"}

\* C12: an invocation for a tag that no branch recognizes has, when it ends,
\* called no handler, made no lookup, no view edit and no session write, has
\* sent an alert (the unknown-action one unless a call raised), and has let
\* no exception out of handle_callback_query
C12_UnknownTagTotal ==
    \A t \in Tasks :
      (Finished(t) /\ Route(tasks[t].data) = "unknown") =>
        /\ Count(tasks[t].trace, Work \cup {"edit"}) = 0
        /\ tasks[t].view = NoView
        /\ Count(tasks[t].trace, {"alert"}) >= 1
        /\ ~tasks[t].caught => tasks[t].alert.kind = "unknown"
        /\ ~tasks[t].raised

\* task t has looked its job up and has a result
Checked(t) == Route(tasks[t].data) = "status" /\ tasks[t].outcome # ""

\* C13: a status check leaves the Ledger as it found it, and two checks of
\* one job_id that read the same job record have the same outcome, the same
\* remaining seconds, the same alert and the same view, polling button included
C13_StatusIdempotent ==
    /\ [][\A t \in Tasks :
            (Route(tasks[t].data) = "status" /\ Steps(t)) =>
               Ledger' = Ledger]_vars
    /\ [](\A t1, t2 \in Tasks :
            ( /\ Checked(t1) /\ Checked(t2)
              /\ tasks[t1].job_id = tasks[t2].job_id
              /\ tasks[t1].account = tasks[t2].account )
            => /\ tasks[t1].outcome = tasks[t2].outcome
               /\ tasks[t1].time_remaining = tasks[t2].time_remaining
               /\ (~tasks[t1].caught /\ ~tasks[t2].caught) =>
                     tasks[t1].alert = tasks[t2].alert
               /\ (tasks[t1].view # NoView /\ tasks[t2].view # NoView) =>
                     tasks[t1].view = tasks[t2].view)

\* two finished checks of one job under different tags, same countdown view
C13_Witness ==
    \E t1, t2 \in Tasks :
      /\ Finished(t1) /\ Finished(t2)
      /\ tasks[t1].data # tasks[t2].data
      /\ tasks[t1].job_id = tasks[t2].job_id
      /\ tasks[t1].outcome = "Pending" /\ tasks[t2].outcome = "Pending"
      /\ tasks[t1].view.kind = "verification"
      /\ tasks[t1].view = tasks[t2].view
      /\ jobs = tasks[t1].account

\* C14: a step of one invocation, failing or not, changes nothing of any
\* other invocation (its calls, alert, view, outcome) and no session but
\* the one of its own user
C14_EventsIsolated ==
    [][\A t \in Tasks :
         Steps(t) =>
           /\ \A s \in Tasks \ {t} : tasks'[s] = tasks[s]
           /\ \A u \in Users :
                user_data'[u] # user_data[u] => u = tasks[t].user]_vars

\* one user's event ended in the except block and raised; the event of the
\* other user, in flight with it, staged and finished without an exception
C14_Witness ==
    \E t1, t2 \in Tasks :
      /\ tasks[t1].user # tasks[t2].user
      /\ Finished(t1) /\ tasks[t1].caught /\ tasks[t1].raised
      /\ Finished(t2) /\ ~tasks[t2].caught
      /\ tasks[t2].outcome = "Eligible"
      /\ user_data[tasks[t2].user] = Staged(tasks[t2].view.amount)
      /\ user_data[tasks[t1].user] = EmptyDict

\* C15: the job a status check looks up is the whole payload of its tag,
\* that is, the tag is 'check_account_status:' followed by that job_id
C15_PayloadIsSuffix ==
    \A t \in Tasks :
      (Route(tasks[t].data) = "status" /\ "get_account" \in Range(tasks[t].trace))
        => tasks[t].data = StatusPrefix \o tasks[t].job_id

\* C16: a status check whose lookup finds no job is NotFound, and only such a
\* check is; it looks the job up once, sends the not-found alert, edits no
\* view, re-arms no button and leaves every session as it was
C16_NotFound ==
    /\ [][\A t \in Tasks :
            (/\ tasks[t].pc = "route"
             /\ Route(tasks[t].data) = "status"
             /\ tasks'[t].outcome # "")
              => /\ (tasks'[t].outcome = "NotFound") <=>
                      (get_account_time_remaining(SplitLast(tasks[t].data)) = None)
                 /\ user_data' = user_data]_vars
    /\ [](\A t \in Tasks :
            tasks[t].outcome = "NotFound" =>
              /\ Count(tasks[t].trace, {"get_account"}) = 1
              /\ Count(tasks[t].trace,
                       {"get_countries", "edit", "set_user_data"}) = 0
              /\ tasks[t].view = NoView
              /\ tasks[t].pc \in {"done", "except"}
              /\ ~tasks[t].swallowed
              /\ (Finished(t) /\ ~tasks[t].caught)
                    => tasks[t].alert = [kind |-> "not_found", arg |-> 0])

\* a check of an unknown job has ended with the not-found alert while the
\* session of another user is staged
C16_Witness ==
    \E t \in Tasks :
      /\ Finished(t)
      /\ ~tasks[t].caught
      /\ tasks[t].outcome = "NotFound"
      /\ tasks[t].job_id = <<"j2">>
      /\ tasks[t].alert.kind = "not_found"
      /\ \E u \in Users : u # tasks[t].user /\ IsStaged(user_data[u])

\* C17: the view of a Pending check carries exactly one button, whose tag
\* routes to the status check and resolves the job_id of that check; a check
\* started from such a button looks up that job and is Pending while the job
\* has time left and Expired, with a view without buttons, once it has none
C17_PendingRearms ==
    /\ [](\A t \in Tasks :
            /\ tasks[t].view.kind = "verification" =>
                 /\ tasks[t].outcome = "Pending"
                 /\ \E b \in Events :
                      /\ tasks[t].view.buttons = {b}
                      /\ Route(b) = "status"
                      /\ SplitLast(b) = tasks[t].job_id
            /\ tasks[t].outcome = "Expired" => tasks[t].view.buttons = {})
    /\ [][\A t, s \in Tasks :
            (/\ tasks[s].view.kind = "verification"
             /\ tasks[t].pc = "route"
             /\ tasks[t].data \in tasks[s].view.buttons
             /\ tasks'[t].outcome # "")
              => /\ tasks'[t].job_id = tasks[s].job_id
                 /\ tasks'[t].account = get_account_time_remaining(tasks[s].job_id)
                 /\ (jobs # None /\ jobs.time_remaining > 0)
                      => tasks'[t].outcome = "Pending"
                 /\ (jobs # None /\ jobs.time_remaining <= 0)
                      => tasks'[t].outcome = "Expired"]_vars

\* the button of a Pending view was pressed after the job ran out of time:
\* that poll is Expired and its view has no button
C17_Witness ==
    \E t, s \in Tasks :
      /\ Finished(s) /\ ~tasks[s].caught /\ ~tasks[s].swallowed
      /\ tasks[s].outcome = "Pending"
      /\ tasks[s].view.kind = "verification"
      /\ tasks[t].data \in tasks[s].view.buttons
      /\ Finished(t) /\ ~tasks[t].caught /\ ~tasks[t].swallowed
      /\ tasks[t].outcome = "Expired"
      /\ tasks[t].job_id = tasks[s].job_id
      /\ tasks[t].view.kind = "processing"

\* the edit of the Expired or Pending view of task t raised
RenderFailed(t) == tasks[t].swallowed

RECURSIVE IndexOf(_, _)
IndexOf(seq, c) ==
    IF seq = <<>> THEN 0
    ELSE IF seq[Len(seq)] = c /\ Count(SubSeq(seq, 1, Len(seq) - 1), {c}) = 0
         THEN Len(seq)
    ELSE IndexOf(SubSeq(seq, 1, Len(seq) - 1), c)
\* the view edit of an eligible withdraw_start of task t raised
EditFailed(t) ==
    /\ tasks[t].outcome = "Eligible"
    /\ tasks[t].pc = "except" \/ tasks[t].caught

\* C19: an eligible withdraw_start writes the session once, before its one
\* view edit; the segment that stages leaves the staged amount in the session
\* also when the edit raises; the except block then sends the failure alert
\* as the last call of the invocation and changes no session, so the session
\* is still staged when the invocation has ended
C19_StageSurvivesFailure ==
    /\ [](\A t \in Tasks :
            /\ tasks[t].outcome = "Eligible" =>
                 /\ Count(tasks[t].trace, {"set_user_data"}) = 1
                 /\ Count(tasks[t].trace, {"edit"}) = 1
                 /\ IndexOf(tasks[t].trace, "set_user_data")
                      < IndexOf(tasks[t].trace, "edit")
                 /\ IsStaged(user_data[tasks[t].user])
            /\ (EditFailed(t) /\ Finished(t)) =>
                 /\ tasks[t].caught
                 /\ tasks[t].alert = [kind |-> "error", arg |-> 0]
                 /\ tasks[t].trace[Len(tasks[t].trace)] = "alert")
    /\ [][\A t \in Tasks :
            /\ (Evaluates(t) /\ tasks'[t].outcome = "Eligible") =>
                  user_data'[tasks[t].user] = Staged(tasks'[t].view.amount)
            /\ (tasks[t].pc = "except" /\ Steps(t)) =>
                  /\ user_data' = user_data
                  /\ tasks'[t].pc = "done"
                  /\ tasks'[t].alert.kind = "error"]_vars

\* the edit of an eligible withdraw_start raised, the failure alert was sent
\* and the session holds the amount of that invocation
C19_Witness ==
    \E t \in Tasks :
      /\ EditFailed(t)
      /\ Finished(t)
      /\ tasks[t].alert.kind = "error"
      /\ user_data[tasks[t].user] = Staged(tasks[t].view.amount)
      /\ tasks[t].view.amount > 0

\* task t handles, in this step, an event other than an eligible
\* withdraw_start and other than the delegated admin confirmation
KeepsSession(t) ==
    /\ Steps(t)
    /\ tasks[t].pc # "idle"
    /\ Route(tasks[t].data) # "admin"
    /\ ~(Evaluates(t) /\ tasks'[t].outcome = "Eligible")

====
